---- MODULE Spec2Model ----
(***************************************************************************)
(* Model of quic/QuicException.cpp: the three exception classes and the    *)
(* string rendering of LocalErrorCode, TransportErrorCode, QuicErrorCode   *)
(* and of the pair (QuicErrorCode, optional free text).                    *)
(*                                                                         *)
(* Each rendering function is an operator returning a record               *)
(*   ret          the returned string                                      *)
(*   warnings     number of LOG(WARNING) statements executed               *)
(*   alertDescNum the values of alertDescNum computed by                   *)
(*                cryptoErrorToString during the call (0 or 1 of them)     *)
(*   unreachable  folly::assume_unreachable() was reached                  *)
(*   nullDeref    a null accessor result was dereferenced                  *)
(* The state machine starts with one pending call (op and arg, pc =        *)
(* "call"); the action of that function or constructor runs it and leaves  *)
(* the outcome in the state (pc = "done").                                 *)
(***************************************************************************)
EXTENDS Integers, Sequences, FiniteSets, TLC

VARIABLES pc, op, arg, ret, warnings, alertDescNum, unreachable, nullDeref,
          exc

vars ==
  <<pc, op, arg, ret, warnings, alertDescNum, unreachable, nullDeref, exc>>

(***************************************************************************)
(* Bounds of the model.                                                    *)
(***************************************************************************)
\* unnamed LocalErrorCode raw values taken on each side of the named block
LocalPad == 3
\* application error codes 0 .. MaxAppCode (and the largest one) are drawn
MaxAppCode == 12
\* number of distinct free texts that can accompany an error code
NumTexts == 2
\* longest exception message, in characters
MaxMsgLen == 2

(***************************************************************************)
(* Declarations of quic/QuicConstants.h and quic/QuicException.h.          *)
(***************************************************************************)
\* std::underlying_type<TransportErrorCode>::type is uint16_t
TransportErrorCodeMax == 65535

\* std::underlying_type<ApplicationErrorCode>::type is uint16_t
ApplicationErrorCodeMax == 65535

\* fizz::AlertDescription is an enumeration over uint8_t
AlertDescriptionMax == 255

TransportErrorCode ==
  [ NO_ERROR                  |-> 0,
    INTERNAL_ERROR            |-> 1,
    SERVER_BUSY               |-> 2,
    FLOW_CONTROL_ERROR        |-> 3,
    STREAM_LIMIT_ERROR        |-> 4,
    STREAM_STATE_ERROR        |-> 5,
    FINAL_SIZE_ERROR          |-> 6,
    FRAME_ENCODING_ERROR      |-> 7,
    TRANSPORT_PARAMETER_ERROR |-> 8,
    PROTOCOL_VIOLATION        |-> 10,
    INVALID_TOKEN             |-> 11,
    INVALID_MIGRATION         |-> 12,
    CRYPTO_ERROR              |-> 256,
    CRYPTO_ERROR_MAX          |-> 511 ]

LocalErrorCode ==
  [ NO_ERROR                   |-> 0,
    CONNECT_FAILED             |-> 1073741824,
    CODEC_ERROR                |-> 1073741825,
    STREAM_CLOSED              |-> 1073741826,
    STREAM_NOT_EXISTS          |-> 1073741827,
    CREATING_EXISTING_STREAM   |-> 1073741828,
    SHUTTING_DOWN              |-> 1073741829,
    RESET_CRYPTO_STREAM        |-> 1073741830,
    CWND_OVERFLOW              |-> 1073741831,
    INFLIGHT_BYTES_OVERFLOW    |-> 1073741832,
    LOST_BYTES_OVERFLOW        |-> 1073741833,
    NEW_VERSION_NEGOTIATED     |-> 1073741834,
    INVALID_WRITE_CALLBACK     |-> 1073741835,
    TLS_HANDSHAKE_FAILED       |-> 1073741836,
    APP_ERROR                  |-> 1073741837,
    INTERNAL_ERROR             |-> 1073741838,
    TRANSPORT_ERROR            |-> 1073741839,
    INVALID_WRITE_DATA         |-> 1073741840,
    INVALID_STATE_TRANSITION   |-> 1073741841,
    CONNECTION_CLOSED          |-> 1073741842,
    EARLY_DATA_REJECTED        |-> 1073741843,
    CONNECTION_RESET           |-> 1073741844,
    IDLE_TIMEOUT               |-> 1073741845,
    PACKET_NUMBER_ENCODING     |-> 1073741846,
    INVALID_OPERATION          |-> 1073741847,
    STREAM_LIMIT_EXCEEDED      |-> 1073741848,
    CONNECTION_ABANDONED       |-> 1073741849,
    CALLBACK_ALREADY_INSTALLED |-> 1073741850,
    KNOB_FRAME_UNSUPPORTED     |-> 1073741851 ]

GenericApplicationErrorCode == [ NO_ERROR |-> 0, UNKNOWN |-> 65535 ]

\* QuicErrorCode::Type
ApplicationErrorCode_E == "ApplicationErrorCode_E"
LocalErrorCode_E == "LocalErrorCode_E"
TransportErrorCode_E == "TransportErrorCode_E"

\* folly::Optional / a pointer that may be null
None == [present |-> FALSE, value |-> 0]
Some(v) == [present |-> TRUE, value |-> v]

\* QuicErrorCode(ApplicationErrorCode), QuicErrorCode(LocalErrorCode),
\* QuicErrorCode(TransportErrorCode): the value and the tag of its kind
QuicErrorCode(t, code) == [type |-> t, value |-> code]

asApplicationErrorCode(code) ==
  IF code.type = ApplicationErrorCode_E THEN Some(code.value) ELSE None

asLocalErrorCode(code) ==
  IF code.type = LocalErrorCode_E THEN Some(code.value) ELSE None

asTransportErrorCode(code) ==
  IF code.type = TransportErrorCode_E THEN Some(code.value) ELSE None

(***************************************************************************)
(* Library conversions used by the rendering functions.                    *)
(***************************************************************************)
Digit(d) == SubSeq("0123456789", d + 1, d + 1)

\* folly::to<std::string> of an unsigned integer: its decimal digits
RECURSIVE toDecimalString(_)
toDecimalString(n) ==
  IF n < 10 THEN Digit(n) ELSE toDecimalString(n \div 10) \o Digit(n % 10)

\* static_cast<fizz::AlertDescription>(int): reduction modulo 2^8
toAlertDescription(n) == n % (AlertDescriptionMax + 1)

\* fizz::toString(AlertDescription): one text per alert description
AlertDescriptionToString(alert) == "alert " \o toDecimalString(alert)

\* the result of a rendering function that returns s and does nothing else
Return(s) ==
  [ret |-> s, warnings |-> 0, alertDescNum |-> <<>>,
   unreachable |-> FALSE, nullDeref |-> FALSE]

\* control leaves a switch without having returned
FallThrough == [Return("") EXCEPT !.ret = "<no return>"]

\* LOG(WARNING) << ...; return s;
WarnAndReturn(s) == [Return(s) EXCEPT !.warnings = 1]

\* "prefix" + r, for the result r of a call
PrependText(prefix, r) == [r EXCEPT !.ret = prefix \o r.ret]

\* r + "suffix"
AppendText(r, suffix) == [r EXCEPT !.ret = r.ret \o suffix]

\* *p for an accessor result p
Deref(p, r) == IF p.present THEN r ELSE [r EXCEPT !.nullDeref = TRUE]

(***************************************************************************)
(* toString(LocalErrorCode): the switch, then the statements after it      *)
(***************************************************************************)
LocalErrorCodeSwitch(code) ==
  CASE code = LocalErrorCode.NO_ERROR -> Return("No Error")
    [] code = LocalErrorCode.CONNECT_FAILED -> Return("Connect failed")
    [] code = LocalErrorCode.CODEC_ERROR -> Return("Codec Error")
    [] code = LocalErrorCode.STREAM_CLOSED -> Return("Stream is closed")
    [] code = LocalErrorCode.STREAM_NOT_EXISTS ->
         Return("Stream does not exist")
    [] code = LocalErrorCode.CREATING_EXISTING_STREAM ->
         Return("Creating an existing stream")
    [] code = LocalErrorCode.SHUTTING_DOWN -> Return("Shutting down")
    [] code = LocalErrorCode.RESET_CRYPTO_STREAM ->
         Return("Reset the crypto stream")
    [] code = LocalErrorCode.CWND_OVERFLOW -> Return("CWND overflow")
    [] code = LocalErrorCode.INFLIGHT_BYTES_OVERFLOW ->
         Return("Inflight bytes overflow")
    [] code = LocalErrorCode.LOST_BYTES_OVERFLOW ->
         Return("Lost bytes overflow")
    [] code = LocalErrorCode.NEW_VERSION_NEGOTIATED ->
         Return("New version negotiatied")
    [] code = LocalErrorCode.INVALID_WRITE_CALLBACK ->
         Return("Invalid write callback")
    [] code = LocalErrorCode.CALLBACK_ALREADY_INSTALLED ->
         Return("Callback already installed")
    [] code = LocalErrorCode.TLS_HANDSHAKE_FAILED ->
         Return("TLS handshake failed")
    [] code = LocalErrorCode.APP_ERROR -> Return("App error")
    [] code = LocalErrorCode.INTERNAL_ERROR -> Return("Internal error")
    [] code = LocalErrorCode.TRANSPORT_ERROR -> Return("Transport error")
    [] code = LocalErrorCode.INVALID_WRITE_DATA ->
         Return("Invalid write data")
    [] code = LocalErrorCode.INVALID_STATE_TRANSITION ->
         Return("Invalid state transition")
    [] code = LocalErrorCode.CONNECTION_CLOSED -> Return("Connection closed")
    [] code = LocalErrorCode.EARLY_DATA_REJECTED ->
         Return("Early data rejected")
    [] code = LocalErrorCode.CONNECTION_RESET -> Return("Connection reset")
    [] code = LocalErrorCode.IDLE_TIMEOUT -> Return("Idle timeout")
    [] code = LocalErrorCode.PACKET_NUMBER_ENCODING ->
         Return("Packet number encoding")
    [] code = LocalErrorCode.INVALID_OPERATION -> Return("Invalid operation")
    [] code = LocalErrorCode.STREAM_LIMIT_EXCEEDED ->
         Return("Stream limit exceeded")
    [] code = LocalErrorCode.CONNECTION_ABANDONED ->
         Return("Connection abandoned")
    [] code = LocalErrorCode.KNOB_FRAME_UNSUPPORTED ->
         Return("Knob Frame Not Supported")
    [] OTHER -> FallThrough

\* a switch with the case of IDLE_TIMEOUT left out
toString_LocalErrorCode_MissingCase(code) ==
  LET r == LocalErrorCodeSwitch(code)
  IN  IF r # FallThrough /\ code # LocalErrorCode.IDLE_TIMEOUT THEN r
      ELSE WarnAndReturn("Unknown error")

\* the fallback returns without logging
toString_LocalErrorCode_Silent(code) ==
  LET r == LocalErrorCodeSwitch(code)
  IN  IF r # FallThrough THEN r ELSE Return("Unknown error")

toString_LocalErrorCode(code) ==
  LET r == LocalErrorCodeSwitch(code)
  IN  IF r # FallThrough THEN r ELSE WarnAndReturn("Unknown error")

(***************************************************************************)
(* cryptoErrorToString(TransportErrorCode)                                 *)
(* codeVal is a uint16_t; the subtraction is done on int after integral    *)
(* promotion, so alertDescNum is the exact difference.                     *)
(***************************************************************************)
cryptoErrorToString(code) ==
  LET codeVal == code
      alertDescNumVal == codeVal - TransportErrorCode.CRYPTO_ERROR
  IN  [PrependText("Crypto error: ",
         Return(AlertDescriptionToString(toAlertDescription(alertDescNumVal))))
       EXCEPT !.alertDescNum = <<alertDescNumVal>>]

(***************************************************************************)
(* Bitwise and of two naturals: codeVal & mask                             *)
(***************************************************************************)
RECURSIVE BitAnd(_, _)
BitAnd(a, b) ==
  IF a = 0 \/ b = 0 THEN 0
  ELSE 2 * BitAnd(a \div 2, b \div 2) + (a % 2) * (b % 2)

(***************************************************************************)
(* toString(TransportErrorCode): the switch, then the range test           *)
(***************************************************************************)
TransportErrorCodeSwitch(code) ==
  CASE code = TransportErrorCode.NO_ERROR -> Return("No Error")
    [] code = TransportErrorCode.INTERNAL_ERROR -> Return("Internal Error")
    [] code = TransportErrorCode.FLOW_CONTROL_ERROR ->
         Return("Flow control error")
    [] code = TransportErrorCode.STREAM_LIMIT_ERROR ->
         Return("Stream limit error")
    [] code = TransportErrorCode.STREAM_STATE_ERROR ->
         Return("Stream State error")
    [] code = TransportErrorCode.FINAL_SIZE_ERROR ->
         Return("Final offset error")
    [] code = TransportErrorCode.FRAME_ENCODING_ERROR ->
         Return("Frame format error")
    [] code = TransportErrorCode.TRANSPORT_PARAMETER_ERROR ->
         Return("Transport parameter error")
    [] code = TransportErrorCode.PROTOCOL_VIOLATION ->
         Return("Protocol violation")
    [] code = TransportErrorCode.INVALID_MIGRATION ->
         Return("Invalid migration")
    [] code = TransportErrorCode.SERVER_BUSY -> Return("Server busy")
    [] code = TransportErrorCode.INVALID_TOKEN -> Return("Invalid token")
    [] code = TransportErrorCode.CRYPTO_ERROR -> cryptoErrorToString(code)
    [] code = TransportErrorCode.CRYPTO_ERROR_MAX -> cryptoErrorToString(code)
    [] OTHER -> FallThrough

\* the mask is the lower boundary instead of the upper one
toString_TransportErrorCode_WrongMask(code) ==
  LET r == TransportErrorCodeSwitch(code)
      codeVal == code
  IN  IF r # FallThrough THEN r
      ELSE IF BitAnd(codeVal, TransportErrorCode.CRYPTO_ERROR) = codeVal
           THEN cryptoErrorToString(code)
           ELSE WarnAndReturn("Unknown error")

\* the range test is made before the switch
toString_TransportErrorCode_RangeFirst(code) ==
  LET r == TransportErrorCodeSwitch(code)
      codeVal == code
  IN  IF BitAnd(codeVal, TransportErrorCode.CRYPTO_ERROR_MAX) = codeVal
      THEN cryptoErrorToString(code)
      ELSE IF r # FallThrough THEN r
           ELSE WarnAndReturn("Unknown error")

toString_TransportErrorCode(code) ==
  LET r == TransportErrorCodeSwitch(code)
      codeVal == code
  IN  IF r # FallThrough THEN r
      ELSE IF BitAnd(codeVal, TransportErrorCode.CRYPTO_ERROR_MAX) = codeVal
           THEN cryptoErrorToString(code)
           ELSE WarnAndReturn("Unknown error")

(***************************************************************************)
(* toString(QuicErrorCode)                                                 *)
(***************************************************************************)
\* the application code is rendered without the test of the sentinel
toString_QuicErrorCode_NoSentinel(code) ==
  CASE code.type = ApplicationErrorCode_E ->
         LET p == asApplicationErrorCode(code)
         IN  Deref(p, Return(toDecimalString(p.value)))
    [] code.type = LocalErrorCode_E ->
         LET p == asLocalErrorCode(code)
         IN  Deref(p, toString_LocalErrorCode(p.value))
    [] code.type = TransportErrorCode_E ->
         LET p == asTransportErrorCode(code)
         IN  Deref(p, toString_TransportErrorCode(p.value))
    [] OTHER -> [Return("") EXCEPT !.unreachable = TRUE]

\* the local case dereferences the accessor of the transport code
toString_QuicErrorCode_WrongAccessor(code) ==
  CASE code.type = ApplicationErrorCode_E ->
         LET p == asApplicationErrorCode(code)
         IN  IF p.value = GenericApplicationErrorCode.NO_ERROR
             THEN Deref(p, Return("No Error"))
             ELSE Deref(p, Return(toDecimalString(p.value)))
    [] code.type = LocalErrorCode_E ->
         LET p == asTransportErrorCode(code)
         IN  Deref(p, toString_TransportErrorCode(p.value))
    [] code.type = TransportErrorCode_E ->
         LET p == asTransportErrorCode(code)
         IN  Deref(p, toString_TransportErrorCode(p.value))
    [] OTHER -> [Return("") EXCEPT !.unreachable = TRUE]

toString_QuicErrorCode(code) ==
  CASE code.type = ApplicationErrorCode_E ->
         LET p == asApplicationErrorCode(code)
         IN  IF p.value = GenericApplicationErrorCode.NO_ERROR
             THEN Deref(p, Return("No Error"))
             ELSE Deref(p, Return(toDecimalString(p.value)))
    [] code.type = LocalErrorCode_E ->
         LET p == asLocalErrorCode(code)
         IN  Deref(p, toString_LocalErrorCode(p.value))
    [] code.type = TransportErrorCode_E ->
         LET p == asTransportErrorCode(code)
         IN  Deref(p, toString_TransportErrorCode(p.value))
    [] OTHER -> [Return("") EXCEPT !.unreachable = TRUE]

(***************************************************************************)
(* toString(std::pair<QuicErrorCode, folly::Optional<folly::StringPiece>>) *)
(* The application code is rendered by toString(QuicErrorCode), reached    *)
(* through the converting constructor of QuicErrorCode.                    *)
(***************************************************************************)
\* the free text is not appended
toString_pair_NoText(error) ==
  LET first == error[1]
  IN  CASE first.type = ApplicationErrorCode_E ->
             LET p == asApplicationErrorCode(first)
             IN  Deref(p, AppendText(PrependText("ApplicationError: ",
                   toString_QuicErrorCode(
                     QuicErrorCode(ApplicationErrorCode_E, p.value))), ", "))
        [] first.type = LocalErrorCode_E ->
             LET p == asLocalErrorCode(first)
             IN  Deref(p, AppendText(PrependText("LocalError: ",
                   toString_LocalErrorCode(p.value)), ", "))
        [] first.type = TransportErrorCode_E ->
             LET p == asTransportErrorCode(first)
             IN  Deref(p, AppendText(PrependText("TransportError: ",
                   toString_TransportErrorCode(p.value)), ", "))
        [] OTHER -> Return("")

toString_pair(error) ==
  LET first == error[1]
      second == error[2]
      err ==
        CASE first.type = ApplicationErrorCode_E ->
               LET p == asApplicationErrorCode(first)
               IN  Deref(p, AppendText(PrependText("ApplicationError: ",
                     toString_QuicErrorCode(
                       QuicErrorCode(ApplicationErrorCode_E, p.value))), ", "))
          [] first.type = LocalErrorCode_E ->
               LET p == asLocalErrorCode(first)
               IN  Deref(p, AppendText(PrependText("LocalError: ",
                     toString_LocalErrorCode(p.value)), ", "))
          [] first.type = TransportErrorCode_E ->
               LET p == asTransportErrorCode(first)
               IN  Deref(p, AppendText(PrependText("TransportError: ",
                     toString_TransportErrorCode(p.value)), ", "))
          [] OTHER -> Return("")
  IN  IF second.present THEN AppendText(err, second.value) ELSE err

(***************************************************************************)
(* Exception constructors.  A message is a sequence of character codes;    *)
(* a const char* argument is the buffer it points to, read up to the first *)
(* NUL; a folly::StringPiece is the first `size` characters of a buffer.   *)
(***************************************************************************)
NUL == 0

\* std::string(const char*): the characters before the terminator
RECURSIVE CStringToString(_)
CStringToString(buf) ==
  IF buf = <<>> \/ Head(buf) = NUL THEN <<>>
  ELSE <<Head(buf)>> \o CStringToString(Tail(buf))

\* folly::to<std::string>(folly::StringPiece): the viewed characters
StringPieceToString(piece) == SubSeq(piece.data, 1, piece.size)

NoException ==
  [class |-> "none", what |-> <<>>, errCode |-> 0, frameType |-> None]

\* the frame type is stored as a default frame type instead of left absent
QuicTransportException_string_DefaultFrame(msg, errCode) ==
  [class |-> "QuicTransportException", what |-> msg,
   errCode |-> errCode, frameType |-> Some(0)]

\* QuicTransportException(const std::string&, TransportErrorCode)
QuicTransportException_string(msg, errCode) ==
  [class |-> "QuicTransportException", what |-> msg,
   errCode |-> errCode, frameType |-> None]

\* QuicTransportException(const char*, TransportErrorCode)
QuicTransportException_cstr(msg, errCode) ==
  [class |-> "QuicTransportException", what |-> CStringToString(msg),
   errCode |-> errCode, frameType |-> None]

\* QuicTransportException(const std::string&, TransportErrorCode, FrameType)
QuicTransportException_string_frame(msg, errCode, frameType) ==
  [class |-> "QuicTransportException", what |-> msg,
   errCode |-> errCode, frameType |-> Some(frameType)]

\* QuicTransportException(const char*, TransportErrorCode, FrameType)
QuicTransportException_cstr_frame(msg, errCode, frameType) ==
  [class |-> "QuicTransportException", what |-> CStringToString(msg),
   errCode |-> errCode, frameType |-> Some(frameType)]

\* QuicInternalException(const std::string&, LocalErrorCode)
QuicInternalException_string(msg, errCode) ==
  [class |-> "QuicInternalException", what |-> msg,
   errCode |-> errCode, frameType |-> None]

\* QuicInternalException(const char*, LocalErrorCode)
QuicInternalException_cstr(msg, errCode) ==
  [class |-> "QuicInternalException", what |-> CStringToString(msg),
   errCode |-> errCode, frameType |-> None]

\* QuicInternalException(folly::StringPiece, LocalErrorCode)
QuicInternalException_StringPiece(msg, errCode) ==
  [class |-> "QuicInternalException", what |-> StringPieceToString(msg),
   errCode |-> errCode, frameType |-> None]

\* QuicApplicationException(const std::string&, ApplicationErrorCode)
QuicApplicationException_string(msg, errorCode) ==
  [class |-> "QuicApplicationException", what |-> msg,
   errCode |-> errorCode, frameType |-> None]

\* QuicApplicationException(const char*, ApplicationErrorCode)
QuicApplicationException_cstr(msg, errorCode) ==
  [class |-> "QuicApplicationException", what |-> CStringToString(msg),
   errCode |-> errorCode, frameType |-> None]

(***************************************************************************)
(* Inputs.                                                                 *)
(***************************************************************************)
Range(f) == {f[x] : x \in DOMAIN f}

MaxFrameType == 2

\* every value of the underlying type of TransportErrorCode
TransportRaw == 0 .. TransportErrorCodeMax

\* the named LocalErrorCode values and unnamed values around them
LocalRaw ==
  (0 .. LocalPad)
  \cup ((LocalErrorCode.CONNECT_FAILED - LocalPad)
          .. (LocalErrorCode.KNOB_FRAME_UNSUPPORTED + LocalPad))

AppRaw == (0 .. MaxAppCode) \cup {ApplicationErrorCodeMax}

QuicErrorCodeTypes ==
  {ApplicationErrorCode_E, LocalErrorCode_E, TransportErrorCode_E}

FreeText(i) ==
  IF i = 1 THEN "window exceeded"
  ELSE IF i = 2 THEN ""
  ELSE "reason " \o toDecimalString(i)

Texts == {None} \cup {Some(FreeText(i)) : i \in 1 .. NumTexts}

MsgChars == {97, 98}

RECURSIVE SeqsUpTo(_, _)
SeqsUpTo(S, n) ==
  IF n = 0 THEN {<<>>}
  ELSE LET shorter == SeqsUpTo(S, n - 1)
       IN  shorter \cup {<<c>> \o s : c \in S, s \in shorter}

\* contents of a std::string message
Messages == SeqsUpTo(MsgChars, MaxMsgLen)

\* buffers a const char* message points to: the text, its terminator and
\* whatever follows it in memory
CBuffers == {m \o <<NUL>> \o t : m \in Messages, t \in {<<>>, <<97>>}}

\* string pieces: a view of the first `size` characters of some text
StringPieces ==
  {p \in [data : Messages, size : 0 .. MaxMsgLen] : p.size <= Len(p.data)}

FrameTypes == 0 .. MaxFrameType

NoArg ==
  [code |-> QuicErrorCode("none", 0), text |-> None, msg |-> <<>>,
   size |-> 0, frameType |-> None]

\* outcomes of a call that ran into undefined behaviour
UndefinedOutcomes == {"", "Unknown error"}

(***************************************************************************)
(* Pending calls: the function or constructor and its arguments.           *)
(***************************************************************************)
\* the raw values drawn for the code kind t
RawOf(t) ==
  CASE t = ApplicationErrorCode_E -> AppRaw
    [] t = LocalErrorCode_E -> LocalRaw
    [] t = TransportErrorCode_E -> TransportRaw

\* the named values of the code kind t
NamedOf(t) ==
  CASE t = ApplicationErrorCode_E -> AppRaw
    [] t = LocalErrorCode_E -> Range(LocalErrorCode)
    [] t = TransportErrorCode_E -> Range(TransportErrorCode)

RenderCall(name, t, c, text) ==
  /\ op = name
  /\ arg = [NoArg EXCEPT !.code = QuicErrorCode(t, c), !.text = text]

NewCall(name, t, msgs, frames) ==
  \E c \in NamedOf(t), m \in msgs, f \in frames :
    /\ op = name
    /\ arg = [NoArg EXCEPT !.code = QuicErrorCode(t, c), !.msg = m,
                           !.frameType = f]

PendingCall ==
  \/ \E c \in LocalRaw :
       RenderCall("toString(LocalErrorCode)", LocalErrorCode_E, c, None)
  \/ \E c \in TransportRaw :
       RenderCall("toString(TransportErrorCode)", TransportErrorCode_E, c,
                  None)
  \/ \E t \in QuicErrorCodeTypes : \E c \in RawOf(t) :
       RenderCall("toString(QuicErrorCode)", t, c, None)
  \/ \E t \in QuicErrorCodeTypes : \E c \in RawOf(t) : \E text \in Texts :
       RenderCall("toString(pair)", t, c, text)
  \/ NewCall("QuicTransportException(string)", TransportErrorCode_E,
             Messages, {None})
  \/ NewCall("QuicTransportException(cstr)", TransportErrorCode_E,
             CBuffers, {None})
  \/ NewCall("QuicTransportException(string,frame)", TransportErrorCode_E,
             Messages, {Some(f) : f \in FrameTypes})
  \/ NewCall("QuicTransportException(cstr,frame)", TransportErrorCode_E,
             CBuffers, {Some(f) : f \in FrameTypes})
  \/ NewCall("QuicInternalException(string)", LocalErrorCode_E,
             Messages, {None})
  \/ NewCall("QuicInternalException(cstr)", LocalErrorCode_E,
             CBuffers, {None})
  \/ \E c \in Range(LocalErrorCode), p \in StringPieces :
       /\ op = "QuicInternalException(StringPiece)"
       /\ arg = [NoArg EXCEPT !.code = QuicErrorCode(LocalErrorCode_E, c),
                              !.msg = p.data, !.size = p.size]
  \/ NewCall("QuicApplicationException(string)", ApplicationErrorCode_E,
             Messages, {None})
  \/ NewCall("QuicApplicationException(cstr)", ApplicationErrorCode_E,
             CBuffers, {None})

(***************************************************************************)
(* The state machine: a pending call, then its outcome.                    *)
(***************************************************************************)
Init ==
  /\ pc = "call"
  /\ PendingCall
  /\ ret = ""
  /\ warnings = 0
  /\ alertDescNum = <<>>
  /\ unreachable = FALSE
  /\ nullDeref = FALSE
  /\ exc = NoException

Pending(name) == pc = "call" /\ op = name

\* the pending rendering call finishes with result r
Rendered(r) ==
  /\ pc' = "done"
  /\ ret' \in (IF r.unreachable \/ r.nullDeref
               THEN UndefinedOutcomes ELSE {r.ret})
  /\ warnings' = r.warnings
  /\ alertDescNum' = r.alertDescNum
  /\ unreachable' = r.unreachable
  /\ nullDeref' = r.nullDeref
  /\ UNCHANGED <<op, arg, exc>>

\* the pending constructor call builds the exception e
Constructed(e) ==
  /\ pc' = "done"
  /\ exc' = e
  /\ UNCHANGED <<op, arg, ret, warnings, alertDescNum, unreachable, nullDeref>>

CallToStringLocal ==
  /\ Pending("toString(LocalErrorCode)")
  /\ Rendered(toString_LocalErrorCode(arg.code.value))

CallToStringTransport ==
  /\ Pending("toString(TransportErrorCode)")
  /\ Rendered(toString_TransportErrorCode(arg.code.value))

CallToStringQuic ==
  /\ Pending("toString(QuicErrorCode)")
  /\ Rendered(toString_QuicErrorCode(arg.code))

CallToStringPair ==
  /\ Pending("toString(pair)")
  /\ Rendered(toString_pair(<<arg.code, arg.text>>))

NewTransportExceptionString ==
  /\ Pending("QuicTransportException(string)")
  /\ Constructed(QuicTransportException_string(arg.msg, arg.code.value))

NewTransportExceptionCStr ==
  /\ Pending("QuicTransportException(cstr)")
  /\ Constructed(QuicTransportException_cstr(arg.msg, arg.code.value))

NewTransportExceptionStringFrame ==
  /\ Pending("QuicTransportException(string,frame)")
  /\ Constructed(QuicTransportException_string_frame(
       arg.msg, arg.code.value, arg.frameType.value))

NewTransportExceptionCStrFrame ==
  /\ Pending("QuicTransportException(cstr,frame)")
  /\ Constructed(QuicTransportException_cstr_frame(
       arg.msg, arg.code.value, arg.frameType.value))

NewInternalExceptionString ==
  /\ Pending("QuicInternalException(string)")
  /\ Constructed(QuicInternalException_string(arg.msg, arg.code.value))

NewInternalExceptionCStr ==
  /\ Pending("QuicInternalException(cstr)")
  /\ Constructed(QuicInternalException_cstr(arg.msg, arg.code.value))

NewInternalExceptionStringPiece ==
  /\ Pending("QuicInternalException(StringPiece)")
  /\ Constructed(QuicInternalException_StringPiece(
       [data |-> arg.msg, size |-> arg.size], arg.code.value))

NewApplicationExceptionString ==
  /\ Pending("QuicApplicationException(string)")
  /\ Constructed(QuicApplicationException_string(arg.msg, arg.code.value))

NewApplicationExceptionCStr ==
  /\ Pending("QuicApplicationException(cstr)")
  /\ Constructed(QuicApplicationException_cstr(arg.msg, arg.code.value))

Next ==
  \/ CallToStringLocal
  \/ CallToStringTransport
  \/ CallToStringQuic
  \/ CallToStringPair
  \/ NewTransportExceptionString
  \/ NewTransportExceptionCStr
  \/ NewTransportExceptionStringFrame
  \/ NewTransportExceptionCStrFrame
  \/ NewInternalExceptionString
  \/ NewInternalExceptionCStr
  \/ NewInternalExceptionStringPiece
  \/ NewApplicationExceptionString
  \/ NewApplicationExceptionCStr

Spec == Init /\ [][Next]_vars

(***************************************************************************)
(* Vocabulary of the properties.                                           *)
(***************************************************************************)
Done(name) == pc = "done" /\ op = name

value == arg.code.value

HasPrefix(s, prefix) ==
  Len(s) >= Len(prefix) /\ SubSeq(s, 1, Len(prefix)) = prefix

CRYPTO_ERROR == TransportErrorCode.CRYPTO_ERROR

CRYPTO_ERROR_MAX == TransportErrorCode.CRYPTO_ERROR_MAX

InCryptoRange(v) == CRYPTO_ERROR <= v /\ v <= CRYPTO_ERROR_MAX

CryptoMarkers == {"CRYPTO_ERROR", "CRYPTO_ERROR_MAX"}

TransportNames == DOMAIN TransportErrorCode

LocalNames == DOMAIN LocalErrorCode

\* the literal of every named LocalErrorCode
LocalLiteral ==
  [ NO_ERROR                   |-> "No Error",
    CONNECT_FAILED             |-> "Connect failed",
    CODEC_ERROR                |-> "Codec Error",
    STREAM_CLOSED              |-> "Stream is closed",
    STREAM_NOT_EXISTS          |-> "Stream does not exist",
    CREATING_EXISTING_STREAM   |-> "Creating an existing stream",
    SHUTTING_DOWN              |-> "Shutting down",
    RESET_CRYPTO_STREAM        |-> "Reset the crypto stream",
    CWND_OVERFLOW              |-> "CWND overflow",
    INFLIGHT_BYTES_OVERFLOW    |-> "Inflight bytes overflow",
    LOST_BYTES_OVERFLOW        |-> "Lost bytes overflow",
    NEW_VERSION_NEGOTIATED     |-> "New version negotiatied",
    INVALID_WRITE_CALLBACK     |-> "Invalid write callback",
    TLS_HANDSHAKE_FAILED       |-> "TLS handshake failed",
    APP_ERROR                  |-> "App error",
    INTERNAL_ERROR             |-> "Internal error",
    TRANSPORT_ERROR            |-> "Transport error",
    INVALID_WRITE_DATA         |-> "Invalid write data",
    INVALID_STATE_TRANSITION   |-> "Invalid state transition",
    CONNECTION_CLOSED          |-> "Connection closed",
    EARLY_DATA_REJECTED        |-> "Early data rejected",
    CONNECTION_RESET           |-> "Connection reset",
    IDLE_TIMEOUT               |-> "Idle timeout",
    PACKET_NUMBER_ENCODING     |-> "Packet number encoding",
    INVALID_OPERATION          |-> "Invalid operation",
    STREAM_LIMIT_EXCEEDED      |-> "Stream limit exceeded",
    CONNECTION_ABANDONED       |-> "Connection abandoned",
    CALLBACK_ALREADY_INSTALLED |-> "Callback already installed",
    KNOB_FRAME_UNSUPPORTED     |-> "Knob Frame Not Supported" ]

\* the literal of every named TransportErrorCode but the crypto markers
TransportLiteral ==
  [ NO_ERROR                  |-> "No Error",
    INTERNAL_ERROR            |-> "Internal Error",
    SERVER_BUSY               |-> "Server busy",
    FLOW_CONTROL_ERROR        |-> "Flow control error",
    STREAM_LIMIT_ERROR        |-> "Stream limit error",
    STREAM_STATE_ERROR        |-> "Stream State error",
    FINAL_SIZE_ERROR          |-> "Final offset error",
    FRAME_ENCODING_ERROR      |-> "Frame format error",
    TRANSPORT_PARAMETER_ERROR |-> "Transport parameter error",
    PROTOCOL_VIOLATION        |-> "Protocol violation",
    INVALID_TOKEN             |-> "Invalid token",
    INVALID_MIGRATION         |-> "Invalid migration" ]

(***************************************************************************)
(* C1: every raw TransportErrorCode value that is not a named case and     *)
(* does not lie in [CRYPTO_ERROR, CRYPTO_ERROR_MAX] renders as "Unknown    *)
(* error" with exactly one warning, below CRYPTO_ERROR as well as above    *)
(* CRYPTO_ERROR_MAX.                                                       *)
(***************************************************************************)
C1_UnknownOutsideCryptoRange ==
  ( /\ Done("toString(TransportErrorCode)")
    /\ value \notin Range(TransportErrorCode)
    /\ ~InCryptoRange(value) )
  => (ret = "Unknown error" /\ warnings = 1)

(***************************************************************************)
(* C2: for every alert ordinal A in 0 .. CRYPTO_ERROR_MAX - CRYPTO_ERROR,  *)
(* the value CRYPTO_ERROR + A renders as "Crypto error: " followed by the  *)
(* external renderer's text for A, without a warning, and the ordinal      *)
(* computed by cryptoErrorToString is exactly A.                           *)
(***************************************************************************)
C2_CryptoRoundTrip ==
  Done("toString(TransportErrorCode)") =>
    \A A \in 0 .. (CRYPTO_ERROR_MAX - CRYPTO_ERROR) :
      value = CRYPTO_ERROR + A =>
        /\ ret = "Crypto error: " \o AlertDescriptionToString(A)
        /\ warnings = 0
        /\ alertDescNum = <<A>>

C2_Witness ==
  /\ Done("toString(TransportErrorCode)")
  /\ value = CRYPTO_ERROR_MAX - 1
  /\ ret = "Crypto error: alert 254"
  /\ alertDescNum = <<254>>

(***************************************************************************)
(* C3: every named LocalErrorCode and every named TransportErrorCode other *)
(* than the two crypto markers renders as its fixed literal, never as      *)
(* "Unknown error", and without a warning.                                 *)
(***************************************************************************)
C3_NamedLiterals ==
  /\ Done("toString(LocalErrorCode)") =>
       \A n \in LocalNames :
         value = LocalErrorCode[n] =>
           /\ ret = LocalLiteral[n]
           /\ ret # "Unknown error"
           /\ warnings = 0
  /\ Done("toString(TransportErrorCode)") =>
       \A n \in TransportNames \ CryptoMarkers :
         value = TransportErrorCode[n] =>
           /\ ret = TransportLiteral[n]
           /\ ret # "Unknown error"
           /\ warnings = 0

C3_Witness ==
  /\ Done("toString(LocalErrorCode)")
  /\ value = LocalErrorCode.IDLE_TIMEOUT
  /\ ret = "Idle timeout"

(***************************************************************************)
(* C4: every raw LocalErrorCode value that matches no named case renders   *)
(* as "Unknown error" with exactly one warning, and toString(LocalError-   *)
(* Code) returns a string for every value: a pending call can always run   *)
(* and ends with a non-empty string and no undefined behaviour.            *)
(***************************************************************************)
C4_UnknownLocal ==
  /\ Pending("toString(LocalErrorCode)") => ENABLED CallToStringLocal
  /\ Done("toString(LocalErrorCode)") =>
       /\ Len(ret) > 0
       /\ ~unreachable /\ ~nullDeref
       /\ value \notin Range(LocalErrorCode) =>
            (ret = "Unknown error" /\ warnings = 1)

C4_Witness ==
  /\ Done("toString(LocalErrorCode)")
  /\ value = LocalErrorCode.KNOB_FRAME_UNSUPPORTED + 1
  /\ ret = "Unknown error"
  /\ warnings = 1

(***************************************************************************)
(* C5: toString(QuicErrorCode) dispatches on the active variant: the       *)
(* application no-error sentinel renders as "No Error", any other          *)
(* application code as its decimal text, a local code as toString(Local-   *)
(* ErrorCode) renders it and a transport code as toString(TransportError-  *)
(* Code) renders it, warnings and crypto delegation included.              *)
(***************************************************************************)
C5_UnifiedDispatch ==
  Done("toString(QuicErrorCode)") =>
    /\ arg.code.type = ApplicationErrorCode_E =>
         /\ value = GenericApplicationErrorCode.NO_ERROR => ret = "No Error"
         /\ value # GenericApplicationErrorCode.NO_ERROR =>
              ret = toDecimalString(value)
         /\ value = GenericApplicationErrorCode.UNKNOWN => ret = "65535"
         /\ warnings = 0
    /\ arg.code.type = LocalErrorCode_E =>
         /\ ret = toString_LocalErrorCode(value).ret
         /\ warnings = toString_LocalErrorCode(value).warnings
    /\ arg.code.type = TransportErrorCode_E =>
         /\ ret = toString_TransportErrorCode(value).ret
         /\ warnings = toString_TransportErrorCode(value).warnings
         /\ alertDescNum = toString_TransportErrorCode(value).alertDescNum

C5_Witness ==
  /\ Done("toString(QuicErrorCode)")
  /\ arg.code = QuicErrorCode(ApplicationErrorCode_E,
                              GenericApplicationErrorCode.NO_ERROR)
  /\ ret = "No Error"

(***************************************************************************)
(* C6: the pair (c, t) renders as P + toString(c) + ", " + (t if present,  *)
(* else nothing), where P is "ApplicationError: ", "LocalError: " or       *)
(* "TransportError: " according to the active variant of c.                *)
(***************************************************************************)
PairPrefix(t) ==
  CASE t = ApplicationErrorCode_E -> "ApplicationError: "
    [] t = LocalErrorCode_E -> "LocalError: "
    [] t = TransportErrorCode_E -> "TransportError: "

C6_PairRendering ==
  Done("toString(pair)") =>
    /\ ret = PairPrefix(arg.code.type) \o toString_QuicErrorCode(arg.code).ret
               \o ", " \o (IF arg.text.present THEN arg.text.value ELSE "")
    /\ ( /\ arg.code = QuicErrorCode(LocalErrorCode_E,
                                     LocalErrorCode.IDLE_TIMEOUT)
         /\ arg.text = None )
       => ret = "LocalError: Idle timeout, "
    /\ ( /\ arg.code = QuicErrorCode(TransportErrorCode_E,
                                     TransportErrorCode.FLOW_CONTROL_ERROR)
         /\ arg.text = Some("window exceeded") )
       => ret = "TransportError: Flow control error, window exceeded"
    /\ arg.code = QuicErrorCode(ApplicationErrorCode_E,
                                GenericApplicationErrorCode.NO_ERROR)
       => HasPrefix(ret, "ApplicationError: No Error, ")

C6_Witness ==
  /\ Done("toString(pair)")
  /\ arg.code = QuicErrorCode(TransportErrorCode_E,
                              TransportErrorCode.FLOW_CONTROL_ERROR)
  /\ arg.text = Some("window exceeded")
  /\ ret = "TransportError: Flow control error, window exceeded"

(***************************************************************************)
(* C7: every exception constructor holds its arguments unchanged: the      *)
(* stored message and code are the ones supplied; a QuicTransportException *)
(* built with a frame type stores that frame type, one built without it    *)
(* has no frame type at all.                                               *)
(***************************************************************************)
StringOverloads ==
  {"QuicTransportException(string)", "QuicTransportException(string,frame)",
   "QuicInternalException(string)", "QuicApplicationException(string)"}

CStrOverloads ==
  {"QuicTransportException(cstr)", "QuicTransportException(cstr,frame)",
   "QuicInternalException(cstr)", "QuicApplicationException(cstr)"}

FrameOverloads ==
  {"QuicTransportException(string,frame)",
   "QuicTransportException(cstr,frame)"}

Constructors ==
  StringOverloads \cup CStrOverloads \cup {"QuicInternalException(StringPiece)"}

ClassOf(name) ==
  IF HasPrefix(name, "QuicTransportException") THEN "QuicTransportException"
  ELSE IF HasPrefix(name, "QuicInternalException")
       THEN "QuicInternalException"
       ELSE "QuicApplicationException"

\* s is the C string that the buffer buf starts with
IsCStringOf(s, buf) ==
  /\ \A i \in 1 .. Len(s) : s[i] # NUL
  /\ Len(buf) > Len(s)
  /\ SubSeq(buf, 1, Len(s) + 1) = s \o <<NUL>>

C7_ConstructorsHoldArguments ==
  (pc = "done" /\ op \in Constructors) =>
    /\ exc.class = ClassOf(op)
    /\ exc.errCode = arg.code.value
    /\ op \in StringOverloads => exc.what = arg.msg
    /\ op \in CStrOverloads => IsCStringOf(exc.what, arg.msg)
    /\ op = "QuicInternalException(StringPiece)" =>
         /\ Len(exc.what) = arg.size
         /\ \A i \in 1 .. arg.size : exc.what[i] = arg.msg[i]
    /\ op \in FrameOverloads =>
         (exc.frameType.present /\ exc.frameType = arg.frameType)
    /\ op \notin FrameOverloads => ~exc.frameType.present

C7_Witness ==
  /\ Done("QuicTransportException(string)")
  /\ arg.msg = <<97, 98>>
  /\ exc.what = <<97, 98>>
  /\ exc.errCode = TransportErrorCode.PROTOCOL_VIOLATION
  /\ ~exc.frameType.present

(***************************************************************************)
(* C8: toString(TransportErrorCode) applies named cases, then the range    *)
(* test, then the unknown fallback: a named non-crypto value gets its      *)
(* literal even though it passes the range test of the code; every raw     *)
(* value gets exactly one of the three outcomes, and a warning is logged   *)
(* if and only if the outcome is "Unknown error".                          *)
(***************************************************************************)
IsNamedLiteral(s) == \E n \in DOMAIN TransportLiteral : s = TransportLiteral[n]

IsCryptoText(s) == HasPrefix(s, "Crypto error: ")

IsUnknownText(s) == s = "Unknown error"

Outcomes(s) ==
  {k \in {"named", "crypto", "unknown"} :
     \/ k = "named" /\ IsNamedLiteral(s)
     \/ k = "crypto" /\ IsCryptoText(s)
     \/ k = "unknown" /\ IsUnknownText(s)}

C8_TierOrder ==
  Done("toString(TransportErrorCode)") =>
    /\ \A n \in TransportNames \ CryptoMarkers :
         value = TransportErrorCode[n] => ret = TransportLiteral[n]
    /\ Cardinality(Outcomes(ret)) = 1
    /\ IsCryptoText(ret) <=> alertDescNum # <<>>
    /\ warnings \in {0, 1}
    /\ warnings = 1 <=> IsUnknownText(ret)

C8_Witness ==
  /\ Done("toString(TransportErrorCode)")
  /\ value = TransportErrorCode.INVALID_TOKEN
  /\ BitAnd(value, CRYPTO_ERROR_MAX) = value
  /\ ret = "Invalid token"
  /\ warnings = 0

(***************************************************************************)
(* C9: whenever toString(TransportErrorCode) delegates to cryptoErrorTo-   *)
(* String, the ordinal value - CRYPTO_ERROR handed to the alert renderer   *)
(* lies in 0 .. CRYPTO_ERROR_MAX - CRYPTO_ERROR: the subtraction never     *)
(* goes below zero nor above the reserved sub-range.                       *)
(***************************************************************************)
C9_OrdinalInRange ==
  Done("toString(TransportErrorCode)") =>
    \A i \in 1 .. Len(alertDescNum) :
      /\ alertDescNum[i] >= 0
      /\ alertDescNum[i] <= CRYPTO_ERROR_MAX - CRYPTO_ERROR

(***************************************************************************)
(* C10: a unified code has exactly one active variant, and only the        *)
(* accessor of that variant reports a value; toString(QuicErrorCode) and   *)
(* the pair toString never dereference an absent accessor result, never    *)
(* reach the unreachable point after the switch, and the pair toString     *)
(* always returns a string with one of the three prefixes.                 *)
(***************************************************************************)
Accessors(code) ==
  [ ApplicationErrorCode_E |-> asApplicationErrorCode(code),
    LocalErrorCode_E |-> asLocalErrorCode(code),
    TransportErrorCode_E |-> asTransportErrorCode(code) ]

C10_OneActiveVariant ==
  (pc = "done" /\ op \in {"toString(QuicErrorCode)", "toString(pair)"}) =>
    /\ arg.code.type \in QuicErrorCodeTypes
    /\ \A t \in QuicErrorCodeTypes :
         Accessors(arg.code)[t].present <=> t = arg.code.type
    /\ Accessors(arg.code)[arg.code.type] = Some(value)
    /\ ~nullDeref
    /\ ~unreachable
    /\ op = "toString(pair)" =>
         \E t \in QuicErrorCodeTypes : HasPrefix(ret, PairPrefix(t))

C10_Witness ==
  /\ Done("toString(pair)")
  /\ arg.code.type = LocalErrorCode_E
  /\ ~asTransportErrorCode(arg.code).present
  /\ HasPrefix(ret, "LocalError: ")
  /\ arg.text = None

====
